---- MODULE Spec2Model ----
(***************************************************************************)
(* The task board of src/calculator.js: the three task containers of the   *)
(* page, the task elements they hold, the local-storage slot 'kanbanTasks' *)
(* and the handlers that change them (addTask, the column drop handler,    *)
(* deleteTask, loadTasksFromLocalStorage, saveTasksToLocalStorage).        *)
(*                                                                         *)
(* The board is the DOM, as in the source: a task is an element of one of  *)
(* the three containers, its column is the container it is a child of, and *)
(* a listing is the children of a container in document order.             *)
(* Decorative classes and timers (column-updated, drag-over, dragging,     *)
(* border-red-500, the placeholder text) are left out: nothing reads them. *)
(*                                                                         *)
(* The rest of the page is modelled beside the board: the window load      *)
(* listener that runs initTabs, initKanban and initCalculator, the two     *)
(* tabs switched by switchTab, and the calculator's four input fields and  *)
(* result span.                                                            *)
(***************************************************************************)
EXTENDS Integers, Sequences, FiniteSets, TLC

VARIABLES
    pc,         \* "start": page loaded, initKanban not yet run; "ready": handlers attached
    dom,        \* container id -> sequence of task elements (children, in order)
    inputAt,    \* where the element with id 'taskInput' is in the document
    storage,    \* the value of localStorage['kanbanTasks']
    confetti,   \* number of triggerConfetti() calls made by the last handler
    last,       \* the last handler that ran and how it ended
    boot,       \* the initializations the window load listener has attempted, in order
    tabs,       \* the tab elements found, tabButtons/tabContents and the two classes
    calc        \* the calculator's elements, its field values and the result span

\* The part of the page outside the task board.
hubVars == <<boot, tabs, calc>>

vars == <<pc, dom, inputAt, storage, confetti, last, boot, tabs, calc>>

----------------------------------------------------------------------------
(* Bounds *)

MaxTasks  == 2      \* addTask is not taken when the board holds this many tasks
MaxStored == 2      \* longest array found in the slot at startup
MaxTime   == 2      \* Date.now() ranges over 1..MaxTime

----------------------------------------------------------------------------
(* Columns and containers *)

\* The three column ids, in document order.
ColumnOrder == <<"todo", "inprogress", "done">>

ColumnIds == {ColumnOrder[k] : k \in 1..Len(ColumnOrder)}

\* taskContainers[status] instanceof HTMLElement
HasContainer(status) == status \in ColumnIds

EmptyDom == [c \in ColumnIds |-> <<>>]

\* Where the taskInput element starts: outside the three task containers.
InputHome == "form"

----------------------------------------------------------------------------
(* Ids *)

\* Math.random().toString(36).substr(2, 9)
Randoms == {"k"}

Times == 1..MaxTime

\* generateId: 'task-' + Date.now() + '-' + Math.random().toString(36).substr(2, 9)
generateId(now, rnd) == "task-" \o ToString(now) \o "-" \o rnd

GenIds == {generateId(t, r) : t \in Times, r \in Randoms}

\* The strings a drag payload or a caller of deleteTask supplies: the ids tasks
\* get, the empty string, and (AnyPayloadIds) the id of an element of the page
\* that is not a task.
PayloadIds == GenIds \cup {""}

AnyPayloadIds == PayloadIds \cup {"taskInput"}

----------------------------------------------------------------------------
(* Text *)

\* Characters of the raw input: a blank and two letters.
IsSpace(ch) == ch = " "

RECURSIVE TrimStart(_)
TrimStart(s) ==
    IF s = <<>> THEN <<>>
    ELSE IF IsSpace(Head(s)) THEN TrimStart(Tail(s)) ELSE s

\* TrimEnd that strips nothing: trailing blanks stay.
TrimEnd_KeepsTail(s) == s

RECURSIVE TrimEnd(_)
TrimEnd(s) ==
    IF s = <<>> THEN <<>>
    ELSE IF IsSpace(s[Len(s)]) THEN TrimEnd(SubSeq(s, 1, Len(s) - 1)) ELSE s

\* The input used as typed, without trim().
Trim_Nothing(s) == s

\* String.prototype.trim
Trim(s) == TrimEnd(TrimStart(s))

\* What the user has typed into taskInput when addTask runs.
RawTexts == { <<>>, <<" ">>, <<"x">>, <<" ", "y", " ">> }

----------------------------------------------------------------------------
(* JSON values held by the slot *)

\* A field of a parsed object with the result of typeof on it.
Str(v)     == [type |-> "string", val |-> v]
NotStrId   == [type |-> "number", val |-> ""]
NotStrText == [type |-> "number", val |-> <<>>]
Missing    == [type |-> "undefined", val |-> ""]

\* An element of a parsed array: an object, null, or a number.
Obj(id, text, status) == [kind |-> "object", id |-> id, text |-> text, status |-> status]
NullElem == [kind |-> "null",   id |-> Missing, text |-> NotStrText, status |-> Missing]
NumElem  == [kind |-> "number", id |-> Missing, text |-> NotStrText, status |-> Missing]

\* The slot: absent (getItem gives null), or a string that is empty, is not JSON,
\* is JSON for a number, or is JSON for an array.
NoItem        == [kind |-> "absent",  items |-> <<>>]
EmptyString   == [kind |-> "empty",   items |-> <<>>]
NotJson       == [kind |-> "invalid", items |-> <<>>]
NumberJson    == [kind |-> "number",  items |-> <<>>]
ArrayJson(xs) == [kind |-> "array",   items |-> xs]

\* JSON.stringify of the array of {id, text, status} objects that save builds.
JSONStringify(tasks) ==
    ArrayJson([k \in 1..Len(tasks) |->
                 Obj(Str(tasks[k].id), Str(tasks[k].text), Str(tasks[k].status))])

\* JSON.parse: "throws" on a string that is not JSON, else the parsed value.
JSONParse(s) ==
    IF s.kind \in {"invalid", "empty"} THEN [threw |-> TRUE, isArray |-> FALSE, items |-> <<>>]
    ELSE [threw |-> FALSE, isArray |-> s.kind = "array", items |-> s.items]

----------------------------------------------------------------------------
(* The DOM: task elements and queries *)

\* createTaskElement: the element for a task object, or "null" for an invalid one.
ValidTask(task) ==
    /\ task.kind = "object"
    /\ task.id.type = "string"
    /\ task.text.type = "string"
    /\ task.status.type = "string"

createTaskElement(task) ==
    [id |-> task.id.val, text |-> task.text.val, lastColumn |-> "", textDone |-> FALSE]

\* document.querySelectorAll('#kanbanContent .task'), with each element's column
\* (closest('.kanban-column').id).
RECURSIVE TaskElementsFrom(_, _)
TaskElementsFrom(d, k) ==
    IF k > Len(ColumnOrder) THEN <<>>
    ELSE [j \in 1..Len(d[ColumnOrder[k]]) |->
            [col |-> ColumnOrder[k], idx |-> j, el |-> d[ColumnOrder[k]][j]]]
         \o TaskElementsFrom(d, k + 1)

TaskElements(d) == TaskElementsFrom(d, 1)

TaskCount(d) == Len(TaskElements(d))

\* document.getElementById: the first element in document order with that id.
\* Of the page's own elements only 'taskInput' is in the universe of ids.
NoElement == [kind |-> "none", col |-> "", idx |-> 0]

getElementById(d, inp, id) ==
    LET all  == TaskElements(d)
        hits == {k \in 1..Len(all) : all[k].el.id = id}
    IN  IF id = "" THEN NoElement
        ELSE IF hits # {}
        THEN LET k == CHOOSE m \in hits : \A n \in hits : m <= n
             IN  [kind |-> "task", col |-> all[k].col, idx |-> all[k].idx]
        ELSE IF id = "taskInput" /\ inp # "removed"
        THEN [kind |-> "input", col |-> inp, idx |-> 0]
        ELSE NoElement

RemoveAt(s, k) == SubSeq(s, 1, k - 1) \o SubSeq(s, k + 1, Len(s))

\* container.appendChild(el) replaced by an insertion before the first child.
AppendChild_InsertsFirst(d, col, el) == [d EXCEPT ![col] = <<el>> \o @]

\* container.appendChild(el) for an element that is in no container.
AppendChild(d, col, el) == [d EXCEPT ![col] = Append(@, el)]

\* el.remove() replaced by emptying the element's container: the siblings of
\* the element go with it.
RemoveChild_ClearsContainer(d, col, k) == [d EXCEPT ![col] = <<>>]

\* el.remove()
RemoveChild(d, col, k) == [d EXCEPT ![col] = RemoveAt(@, k)]

----------------------------------------------------------------------------
(* Persistence *)

\* SavedTasks with the query narrowed to the first container: the tasks of the
\* other two columns are not written.
SavedTasks_TodoOnly(d) ==
    [k \in 1..Len(d["todo"]) |->
        [id |-> d["todo"][k].id, text |-> d["todo"][k].text, status |-> "todo"]]

\* The array saveTasksToLocalStorage builds: one {id, text, status} per task
\* element, in document order, status being the id of the element's column.
SavedTasks(d) ==
    LET all == TaskElements(d)
    IN  [k \in 1..Len(all) |->
            [id |-> all[k].el.id, text |-> all[k].el.text, status |-> all[k].col]]

\* localStorage.setItem('kanbanTasks', value): replaces the slot, or throws
\* (quota, storage disabled) and leaves it as it was.
SetItem(cur, value, ok) == IF ok THEN value ELSE cur

\* saveTasksToLocalStorage: the slot after saving board d.
saveTasksToLocalStorage(cur, d, ok) == SetItem(cur, JSONStringify(SavedTasks(d)), ok)

\* PlaceLoaded without the lookup of the record's status: every record goes to
\* the 'todo' container.
PlaceLoaded_AlwaysTodo(d, task) ==
    AppendChild(d, "todo", [createTaskElement(task) EXCEPT !.lastColumn = "todo"])

\* PlaceLoaded whose fallback records the stored status as the task's column
\* (line 483 repeated at line 496) instead of 'todo'.
PlaceLoaded_FallbackKeepsStatus(d, task) ==
    LET el == createTaskElement(task)
        st == task.status.val
    IN  IF HasContainer(st)
        THEN AppendChild(d, st, [el EXCEPT !.lastColumn = st, !.textDone = (st = "done")])
        ELSE AppendChild(d, "todo", [el EXCEPT !.lastColumn = st])

\* One accepted record placed on the board: into the container of its status,
\* or into 'todo' when there is no such container.
PlaceLoaded(d, task) ==
    LET el == createTaskElement(task)
        st == task.status.val
    IN  IF HasContainer(st)
        THEN AppendChild(d, st, [el EXCEPT !.lastColumn = st, !.textDone = (st = "done")])
        ELSE AppendChild(d, "todo", [el EXCEPT !.lastColumn = "todo"])

\* The per-record test of loadTasksFromLocalStorage: typeof of the three fields.
RecordAccepted(task) ==
    /\ task.id.type = "string"
    /\ task.text.type = "string"
    /\ task.status.type = "string"

\* tasks.forEach(...): the board after the records from position k on, and
\* whether the callback threw (a property read on null).
RECURSIVE LoadItems(_, _, _)
LoadItems(d, items, k) ==
    IF k > Len(items) THEN [dom |-> d, threw |-> FALSE]
    ELSE LET task == items[k]
         IN  IF task.kind = "null" THEN [dom |-> d, threw |-> TRUE]
             ELSE IF ~RecordAccepted(task) THEN LoadItems(d, items, k + 1)
             ELSE IF ~ValidTask(task) THEN LoadItems(d, items, k + 1)
             ELSE LoadItems(PlaceLoaded(d, task), items, k + 1)

\* LoadResult without the removeItem of the not-an-array branch.
LoadResult_KeepsNonArray(d, slot) ==
    IF slot.kind \in {"absent", "empty"}
    THEN [dom |-> d, storage |-> slot, res |-> "Empty"]
    ELSE LET parsed == JSONParse(slot)
         IN  IF parsed.threw
             THEN [dom |-> d, storage |-> NoItem, res |-> "Corrupt"]
             ELSE IF ~parsed.isArray
             THEN [dom |-> d, storage |-> slot, res |-> "NotArray"]
             ELSE LET r == LoadItems(d, parsed.items, 1)
                  IN  IF r.threw
                      THEN [dom |-> r.dom, storage |-> NoItem, res |-> "Corrupt"]
                      ELSE [dom |-> r.dom, storage |-> slot, res |-> "Loaded"]

\* LoadResult with a saveTasksToLocalStorage call at the end of a load that
\* ran to its end: the slot is rewritten from the board.
LoadResult_SavesAfterLoad(d, slot) ==
    IF slot.kind \in {"absent", "empty"}
    THEN [dom |-> d, storage |-> slot, res |-> "Empty"]
    ELSE LET parsed == JSONParse(slot)
         IN  IF parsed.threw
             THEN [dom |-> d, storage |-> NoItem, res |-> "Corrupt"]
             ELSE IF ~parsed.isArray
             THEN [dom |-> d, storage |-> NoItem, res |-> "NotArray"]
             ELSE LET r == LoadItems(d, parsed.items, 1)
                  IN  IF r.threw
                      THEN [dom |-> r.dom, storage |-> NoItem, res |-> "Corrupt"]
                      ELSE [dom |-> r.dom,
                            storage |-> saveTasksToLocalStorage(slot, r.dom, TRUE),
                            res |-> "Loaded"]

\* loadTasksFromLocalStorage: the board, the slot and the outcome ("Empty":
\* nothing stored; "NotArray": cleared at line 468; "Corrupt": cleared by the
\* catch; "Loaded": the forEach ran to its end).
LoadResult(d, slot) ==
    IF slot.kind \in {"absent", "empty"}
    THEN [dom |-> d, storage |-> slot, res |-> "Empty"]
    ELSE LET parsed == JSONParse(slot)
         IN  IF parsed.threw
             THEN [dom |-> d, storage |-> NoItem, res |-> "Corrupt"]
             ELSE IF ~parsed.isArray
             THEN [dom |-> d, storage |-> NoItem, res |-> "NotArray"]
             ELSE LET r == LoadItems(d, parsed.items, 1)
                  IN  IF r.threw
                      THEN [dom |-> r.dom, storage |-> NoItem, res |-> "Corrupt"]
                      ELSE [dom |-> r.dom, storage |-> slot, res |-> "Loaded"]

----------------------------------------------------------------------------
(* What the slot may hold when the page opens *)

StoredIds == GenIds

GoodRecords ==
    {Obj(Str(i), Str(<<"x">>), Str(c)) : i \in StoredIds, c \in ColumnIds}

OneId == generateId(1, "k")

OddRecords ==
    { Obj(Str(OneId), Str(<<"x">>), Str("archived")),
      Obj(Str(OneId), Str(<<>>),    Str("todo")),
      Obj(Str(""),    Str(<<"x">>), Str("todo")),
      Obj(NotStrId,   Str(<<"x">>), Str("todo")),
      Obj(Str(OneId), NotStrText,   Str("todo")),
      Obj(Str(OneId), Str(<<"x">>), Missing),
      NullElem,
      NumElem }

StoredItems == GoodRecords \cup OddRecords

RECURSIVE SeqsUpTo(_, _)
SeqsUpTo(S, n) ==
    IF n = 0 THEN {<<>>}
    ELSE LET shorter == SeqsUpTo(S, n - 1)
         IN  shorter \cup {Append(q, x) : q \in shorter, x \in S}

StoredAtStart ==
    {NoItem, EmptyString, NotJson, NumberJson}
        \cup {ArrayJson(q) : q \in SeqsUpTo(StoredItems, MaxStored)}

----------------------------------------------------------------------------
(* The calculator *)

\* The board's variables, left alone by the rest of the page.
boardVars == <<pc, dom, inputAt, storage, confetti, last>>

\* The four input fields, by element id.
FieldIds == {"varD", "varSP", "varCp", "varB"}

\* Numbers typed into a field.
InputNumbers == {0, 1, 100}

Typed(kind, val) == [kind |-> kind, val |-> val]

\* The value of a field: empty, a text parseFloat cannot read, the text
\* 'Infinity', or the digits of a number.
FieldValues ==
    {Typed("empty", 0), Typed("text", 0), Typed("inf", 0)}
        \cup {Typed("num", n) : n \in InputNumbers}

\* parseFloat(value) || 0: NaN and 0 give 0; Infinity stays.
ParseOrZero(v) ==
    CASE v.kind = "num" -> [finite |-> TRUE,  val |-> v.val]
      [] v.kind = "inf" -> [finite |-> FALSE, val |-> 0]
      [] OTHER          -> [finite |-> TRUE,  val |-> 0]

\* The numbers of the equation. The two divisions, by 1.20 and then by 100,
\* are together one division by 120, which keeps the arithmetic in the
\* integers; the documented divisor 1.18 becomes 118 in the same way.
Offset == 74
Base == 7400
DivisorHundredths == 120
DocDivisorHundredths == 118
MaxFractionUnits == 10000    \* maximumFractionDigits: 4

\* a / b rounded to the nearest integer, halves away from zero (b > 0).
RoundDiv(a, b) ==
    IF a >= 0 THEN (2 * a + b) \div (2 * b)
    ELSE -((2 * (-a) + b) \div (2 * b))

\* term3 of the code: D * (SP - Cp + B + 74) - 7400.
Term3(D, SP, Cp, B) == D * (SP - Cp + B + Offset) - Base

\* (term3 / (divisor / 100)) / 100 as toLocaleString shows it: the number of
\* ten-thousandths nearest to it. No quotient by 120 or by 118 of an integer
\* lies half-way between two ten-thousandths, so the binary rounding of the
\* two divisions cannot change the digits shown.
Shown(term3, divisorHundredths) ==
    RoundDiv(term3 * MaxFractionUnits, divisorHundredths)

\* The text of the result span.
Markup == [kind |-> "markup", val |-> 0]
InvalidResult == [kind |-> "invalid", val |-> 0]
Number(n) == [kind |-> "number", val |-> n]

\* calculateAndUpdateResults: c.found says that the four fields and the result
\* span were all found by initializeCalculatorDOMElements.
calculateAndUpdateResults(c) ==
    IF ~c.found THEN c
    ELSE LET D  == ParseOrZero(c.fields["varD"])
             SP == ParseOrZero(c.fields["varSP"])
             Cp == ParseOrZero(c.fields["varCp"])
             B  == ParseOrZero(c.fields["varB"])
         IN  IF D.finite /\ SP.finite /\ Cp.finite /\ B.finite
             THEN [c EXCEPT !.result =
                      Number(Shown(Term3(D.val, SP.val, Cp.val, B.val), DivisorHundredths))]
             ELSE [c EXCEPT !.result = InvalidResult]

\* The calculator of a freshly opened document.
CalcAtStart ==
    [found : BOOLEAN, listening : {FALSE}, fields : [FieldIds -> FieldValues],
     result : {Markup}]

\* The calculator while only the board is looked at.
PlainCalc ==
    [found |-> TRUE, listening |-> FALSE,
     fields |-> [f \in FieldIds |-> Typed("empty", 0)], result |-> Markup]

----------------------------------------------------------------------------
(* The tabs *)

\* The two tab buttons and the two content divs, by tab index.
TabIndexes == {0, 1}

TabElementIds == {"tabKanban", "tabCalculator", "kanbanContent", "calculatorContent"}

ButtonId(i) == IF i = 0 THEN "tabKanban" ELSE "tabCalculator"

\* The tabs while only the board is looked at.
PlainTabs ==
    [found |-> TabElementIds, length |-> 0, listening |-> {},
     active |-> [i \in TabIndexes |-> FALSE], hidden |-> [i \in TabIndexes |-> FALSE]]

----------------------------------------------------------------------------

(* switchTab and initTabs *)

\* A JavaScript number passed as activeIndex: an integer, a number that is
\* not an integer and lies between val and val + 1, or NaN.
Whole(n)   == [kind |-> "int",  val |-> n]
Between(n) == [kind |-> "frac", val |-> n]
NaN     == [kind |-> "nan",  val |-> 0]

IndexValues == {Whole(n) : n \in -1..2} \cup {Between(n) : n \in -1..1} \cup {NaN}

\* x < n and x >= n for an integer n, as JavaScript compares numbers: every
\* comparison with NaN is false.
LessThan(x, n) == x.kind # "nan" /\ x.val < n
AtLeast(x, n)  == x.kind # "nan" /\ x.val >= n

\* index === activeIndex for an array index.
StrictEquals(index, x) == x.kind = "int" /\ x.val = index

\* The tabs of a freshly opened document: any of the four elements may be
\* missing from the markup, and the markup gives the classes 'active-tab' and
\* 'hidden' to the buttons and content divs as it likes.
TabsAtStart ==
    [found : SUBSET TabElementIds, length : {0}, listening : {{}},
     active : [TabIndexes -> BOOLEAN], hidden : [TabIndexes -> BOOLEAN]]

\* switchTab(activeIndex). Every element of tabButtons and tabContents is an
\* HTMLElement: the arrays are filled only when all four were found.
switchTab(t, activeIndex) ==
    IF t.length = 0 \/ LessThan(activeIndex, 0) \/ AtLeast(activeIndex, t.length)
    THEN t
    ELSE [t EXCEPT !.active = [i \in TabIndexes |-> StrictEquals(i, activeIndex)],
                   !.hidden = [i \in TabIndexes |-> ~StrictEquals(i, activeIndex)]]

\* initializeTabDOMElements: tabButtons and tabContents get their two elements
\* when all four were found, and stay empty otherwise.
initializeTabDOMElements(t) ==
    [t EXCEPT !.length = IF t.found = TabElementIds THEN Cardinality(TabIndexes) ELSE 0]

\* initTabs: a click listener for each button found, then switchTab(0) when
\* the arrays are filled.
initTabs(t) ==
    LET looked == initializeTabDOMElements(t)
        wired  == [looked EXCEPT !.listening = {i \in TabIndexes : ButtonId(i) \in t.found}]
    IN  IF wired.length > 0 THEN switchTab(wired, Whole(0)) ELSE wired

----------------------------------------------------------------------------

(* Handlers *)

\* Bookkeeping: no handler has run yet.
NoHandler == [op |-> "none", id |-> "", col |-> "", res |-> ""]

Init ==
    /\ pc = "start"
    /\ dom = EmptyDom
    /\ inputAt = InputHome
    /\ storage \in StoredAtStart
    /\ confetti = 0
    /\ last = NoHandler
    /\ boot = <<>>
    /\ tabs = PlainTabs
    /\ calc = PlainCalc

\* initKanban: attaches the handlers, then loads the stored tasks.
InitKanban ==
    /\ pc = "start"
    /\ LET r == LoadResult(dom, storage)
       IN  /\ dom' = r.dom
           /\ storage' = r.storage
           /\ last' = [op |-> "load", id |-> "", col |-> "", res |-> r.res]
    /\ pc' = "ready"
    /\ confetti' = 0
    /\ UNCHANGED inputAt
    /\ UNCHANGED hubVars

\* addTask with taskInput.value = raw, Date.now() = now, Math.random() giving rnd.
addTask(raw, now, rnd, ok) ==
    /\ pc = "ready"
    /\ TaskCount(dom) < MaxTasks
    /\ LET taskTextVal == Trim(raw)
       IN  IF taskTextVal = <<>>
           THEN /\ last' = [op |-> "add", id |-> "", col |-> "", res |-> "EmptyInput"]
                /\ UNCHANGED <<dom, storage>>
           ELSE LET newTask == Obj(Str(generateId(now, rnd)), Str(taskTextVal), Str("todo"))
                    el == [createTaskElement(newTask) EXCEPT !.lastColumn = "todo"]
                IN  /\ dom' = AppendChild(dom, "todo", el)
                    /\ storage' = saveTasksToLocalStorage(storage, dom', ok)
                    /\ last' = [op |-> "add", id |-> el.id, col |-> "todo",
                                res |-> IF ok THEN "Added" ELSE "WriteFailed"]
    /\ confetti' = 0
    /\ UNCHANGED <<pc, inputAt>>
    /\ UNCHANGED hubVars

\* DropTask without the parentElement test: the element is appended again even
\* when it is already in the target container.
DropTask_AlwaysAppends(d, col, idx, targetColumnId) ==
    LET el    == d[col][idx]
        moved == AppendChild(RemoveChild(d, col, idx), targetColumnId, el)
    IN  [moved EXCEPT ![targetColumnId][Len(moved[targetColumnId])] =
            [@ EXCEPT !.textDone = (targetColumnId = "done"),
                      !.lastColumn = targetColumnId]]

\* DropTask without the assignment to dataset.lastColumn (line 590).
DropTask_KeepsLastColumn(d, col, idx, targetColumnId) ==
    LET el    == d[col][idx]
        moved == IF col # targetColumnId
                 THEN AppendChild(RemoveChild(d, col, idx), targetColumnId, el)
                 ELSE d
        at    == IF col # targetColumnId THEN Len(moved[targetColumnId]) ELSE idx
    IN  [moved EXCEPT ![targetColumnId][at] =
            [@ EXCEPT !.textDone = (targetColumnId = "done")]]

\* The board after the drop handler moved task element (col, idx) to targetColumnId.
DropTask(d, col, idx, targetColumnId) ==
    LET el    == d[col][idx]
        moved == IF col # targetColumnId
                 THEN AppendChild(RemoveChild(d, col, idx), targetColumnId, el)
                 ELSE d
        at    == IF col # targetColumnId THEN Len(moved[targetColumnId]) ELSE idx
    IN  [moved EXCEPT ![targetColumnId][at] =
            [@ EXCEPT !.textDone = (targetColumnId = "done"),
                      !.lastColumn = targetColumnId]]

\* NewlyDone without the lastColumn test: every drop on 'done' fires.
NewlyDone_AnyDropOnDone(el, targetColumnId) == targetColumnId = "done"

\* The drop handler's confetti test.
NewlyDone(el, targetColumnId) == targetColumnId = "done" /\ el.lastColumn # "done"

\* The drop handler of column targetColumnId, with drag payload taskId.
drop(taskId, targetColumnId, ok) ==
    /\ pc = "ready"
    /\ LET taskElement == getElementById(dom, inputAt, taskId)
       IN  CASE taskElement.kind = "none" ->
                  /\ last' = [op |-> "drop", id |-> taskId, col |-> targetColumnId,
                              res |-> "NotFound"]
                  /\ confetti' = 0
                  /\ UNCHANGED <<dom, inputAt, storage>>
             [] taskElement.kind = "task" ->
                  /\ dom' = DropTask(dom, taskElement.col, taskElement.idx, targetColumnId)
                  /\ confetti' = IF NewlyDone(dom[taskElement.col][taskElement.idx],
                                              targetColumnId) THEN 1 ELSE 0
                  /\ storage' = saveTasksToLocalStorage(storage, dom', ok)
                  /\ last' = [op |-> "drop", id |-> taskId, col |-> targetColumnId,
                              res |-> IF ~ok THEN "WriteFailed"
                                      ELSE IF taskElement.col = targetColumnId
                                      THEN "NoOp" ELSE "Moved"]
                  /\ UNCHANGED inputAt
             [] taskElement.kind = "input" ->
                  /\ inputAt' = targetColumnId
                  /\ confetti' = 0
                  /\ storage' = saveTasksToLocalStorage(storage, dom, ok)
                  /\ last' = [op |-> "drop", id |-> taskId, col |-> targetColumnId,
                              res |-> IF ok THEN "Foreign" ELSE "WriteFailed"]
                  /\ UNCHANGED dom
    /\ UNCHANGED pc
    /\ UNCHANGED hubVars

\* deleteTask with the save placed before the removal: when setItem throws,
\* the handler ends before taskElement.remove() and the task stays.
deleteTask_SavesBeforeRemoving(taskId, ok) ==
    /\ pc = "ready"
    /\ LET taskElement == getElementById(dom, inputAt, taskId)
       IN  CASE taskElement.kind = "none" ->
                  /\ last' = [op |-> "delete", id |-> taskId, col |-> "", res |-> "NotFound"]
                  /\ UNCHANGED <<dom, inputAt, storage>>
             [] taskElement.kind = "task" ->
                  /\ dom' = IF ok THEN RemoveChild(dom, taskElement.col, taskElement.idx)
                            ELSE dom
                  /\ storage' = saveTasksToLocalStorage(storage, dom', ok)
                  /\ last' = [op |-> "delete", id |-> taskId, col |-> "",
                              res |-> IF ok THEN "Deleted" ELSE "WriteFailed"]
                  /\ UNCHANGED inputAt
             [] taskElement.kind = "input" ->
                  /\ inputAt' = IF ok THEN "removed" ELSE inputAt
                  /\ storage' = saveTasksToLocalStorage(storage, dom, ok)
                  /\ last' = [op |-> "delete", id |-> taskId, col |-> "",
                              res |-> IF ok THEN "Foreign" ELSE "WriteFailed"]
                  /\ UNCHANGED dom
    /\ confetti' = 0
    /\ UNCHANGED pc
    /\ UNCHANGED hubVars

\* deleteTask(taskId)
deleteTask(taskId, ok) ==
    /\ pc = "ready"
    /\ LET taskElement == getElementById(dom, inputAt, taskId)
       IN  CASE taskElement.kind = "none" ->
                  /\ last' = [op |-> "delete", id |-> taskId, col |-> "", res |-> "NotFound"]
                  /\ UNCHANGED <<dom, inputAt, storage>>
             [] taskElement.kind = "task" ->
                  /\ dom' = RemoveChild(dom, taskElement.col, taskElement.idx)
                  /\ storage' = saveTasksToLocalStorage(storage, dom', ok)
                  /\ last' = [op |-> "delete", id |-> taskId, col |-> "",
                              res |-> IF ok THEN "Deleted" ELSE "WriteFailed"]
                  /\ UNCHANGED inputAt
             [] taskElement.kind = "input" ->
                  /\ inputAt' = "removed"
                  /\ storage' = saveTasksToLocalStorage(storage, dom, ok)
                  /\ last' = [op |-> "delete", id |-> taskId, col |-> "",
                              res |-> IF ok THEN "Foreign" ELSE "WriteFailed"]
                  /\ UNCHANGED dom
    /\ confetti' = 0
    /\ UNCHANGED pc
    /\ UNCHANGED hubVars

\* The page is closed and opened again: a new document, the same slot.
Reload ==
    /\ pc = "ready"
    /\ pc' = "start"
    /\ dom' = EmptyDom
    /\ inputAt' = InputHome
    /\ confetti' = 0
    /\ last' = NoHandler
    /\ UNCHANGED storage
    /\ UNCHANGED hubVars

\* The handlers the user can set off, with drag payloads and deleteTask
\* arguments drawn from ids.
Handlers(ids) ==
    \/ \E raw \in RawTexts, now \in Times, rnd \in Randoms : addTask(raw, now, rnd, TRUE)
    \/ \E taskId \in ids, c \in ColumnIds : drop(taskId, c, TRUE)
    \/ \E taskId \in ids : deleteTask(taskId, TRUE)

Next ==
    \/ InitKanban
    \/ Handlers(PayloadIds)
    \/ Reload

Spec == Init /\ [][Next]_vars

\* The same page with drag payloads that may also name the taskInput element.
NextAnyPayload ==
    \/ InitKanban
    \/ Handlers(AnyPayloadIds)
    \/ Reload

SpecAnyPayload == Init /\ [][NextAnyPayload]_vars

\* The same page with a storage that refuses every write (quota exceeded,
\* storage disabled): each setItem throws. The slot holds nothing or one
\* well-formed 'todo' record when the page opens.
StoredWhenFull ==
    {NoItem, ArrayJson(<<Obj(Str(OneId), Str(<<"x">>), Str("todo"))>>)}

InitWhenFull ==
    /\ pc = "start"
    /\ dom = EmptyDom
    /\ inputAt = InputHome
    /\ storage \in StoredWhenFull
    /\ confetti = 0
    /\ last = NoHandler
    /\ boot = <<>>
    /\ tabs = PlainTabs
    /\ calc = PlainCalc

HandlersWhenFull(ids) ==
    \/ \E raw \in RawTexts, now \in Times, rnd \in Randoms : addTask(raw, now, rnd, FALSE)
    \/ \E taskId \in ids, c \in ColumnIds : drop(taskId, c, FALSE)
    \/ \E taskId \in ids : deleteTask(taskId, FALSE)

NextWhenFull ==
    \/ InitKanban
    \/ HandlersWhenFull(PayloadIds)
    \/ Reload

SpecWhenFull == InitWhenFull /\ [][NextWhenFull]_vars

----------------------------------------------------------------------------
\* The calculator alone: the board is left as the document has it.
InitCalcPage ==
    /\ pc = "start"
    /\ dom = EmptyDom
    /\ inputAt = InputHome
    /\ storage = NoItem
    /\ confetti = 0
    /\ last = NoHandler
    /\ boot = <<>>
    /\ tabs = PlainTabs
    /\ calc \in CalcAtStart

\* initCalculator: looks the elements up, attaches the input listeners and
\* shows the result for the values the fields hold.
initCalculator ==
    /\ ~calc.listening
    /\ calc' = [calculateAndUpdateResults(calc) EXCEPT !.listening = TRUE]
    /\ UNCHANGED <<boardVars, boot, tabs>>

\* The user changes field f to v; the input listener, once attached,
\* recalculates.
Input(f, v) ==
    /\ calc.fields[f] # v
    /\ LET typed == [calc EXCEPT !.fields[f] = v]
       IN  calc' = IF calc.listening THEN calculateAndUpdateResults(typed) ELSE typed
    /\ UNCHANGED <<boardVars, boot, tabs>>

NextCalculator ==
    \/ initCalculator
    \/ \E f \in FieldIds, v \in FieldValues : Input(f, v)

SpecCalculator == InitCalcPage /\ [][NextCalculator]_vars

\* The window load listener (lines 190-228): initTabs, initKanban and
\* initCalculator, each in a try statement of its own. boot lists what was
\* attempted, "caught" marking an exception that reached a catch clause.

\* A try statement left behind: its catch clause ran when the call threw.
\* An exception that no catch clause took would end the listener.
Caught_Rethrows(trace, threw) == IF threw THEN Append(trace, "uncaught") ELSE trace

Caught(trace, threw) == IF threw THEN Append(trace, "caught") ELSE trace

\* The statement of the listener that runs next.
ListenerAt ==
    IF boot = <<>> THEN "initTabs"
    ELSE CASE boot[Len(boot)] = "initTabs" -> "initKanban"
           [] boot[Len(boot)] \in {"loadTasksFromLocalStorage", "caught"} -> "initCalculator"
           [] boot[Len(boot)] = "initCalculator" -> "done"
           [] OTHER -> "aborted"

\* What the slot holds when the page opens.
StoredOnPage ==
    {NoItem, NumberJson, ArrayJson(<<Obj(Str(OneId), Str(<<"x">>), Str("todo"))>>)}

\* The calculator of the page when it opens: with its elements or without
\* one, the fields empty or holding 1.
CalcOnPage ==
    {c \in CalcAtStart :
        \E v \in {Typed("empty", 0), Typed("num", 1)} : \A f \in FieldIds : c.fields[f] = v}

InitPage ==
    /\ pc = "start"
    /\ dom = EmptyDom
    /\ inputAt = InputHome
    /\ storage \in StoredOnPage
    /\ confetti = 0
    /\ last = NoHandler
    /\ boot = <<>>
    /\ tabs \in TabsAtStart
    /\ calc \in CalcOnPage

\* try { initTabs() } catch: nothing in initTabs throws.
ListenerTabs ==
    /\ ListenerAt = "initTabs"
    /\ tabs' = initTabs(tabs)
    /\ boot' = Caught(Append(boot, "initTabs"), FALSE)
    /\ UNCHANGED <<boardVars, calc>>

\* try { initKanban() } catch: initKanban attaches the handlers and calls
\* loadTasksFromLocalStorage as its last statement. With access FALSE the
\* browser refuses the page its localStorage, the read at line 462 throws, and
\* the exception leaves initKanban.
ListenerKanban(access) ==
    /\ ListenerAt = "initKanban"
    /\ pc = "start"
    /\ IF access
       THEN LET r == LoadResult(dom, storage)
            IN  /\ dom' = r.dom
                /\ storage' = r.storage
                /\ last' = [op |-> "load", id |-> "", col |-> "", res |-> r.res]
       ELSE /\ last' = [op |-> "load", id |-> "", col |-> "", res |-> "Threw"]
            /\ UNCHANGED <<dom, storage>>
    /\ pc' = "ready"
    /\ confetti' = 0
    /\ boot' = Caught(boot \o <<"initKanban", "loadTasksFromLocalStorage">>, ~access)
    /\ UNCHANGED <<inputAt, tabs, calc>>

\* try { initCalculator() } catch: nothing in initCalculator throws.
ListenerCalculator ==
    /\ ListenerAt = "initCalculator"
    /\ calc' = [calculateAndUpdateResults(calc) EXCEPT !.listening = TRUE]
    /\ boot' = Caught(Append(boot, "initCalculator"), FALSE)
    /\ UNCHANGED <<boardVars, tabs>>

Listener ==
    \/ ListenerTabs
    \/ \E access \in BOOLEAN : ListenerKanban(access)
    \/ ListenerCalculator

NextPage == Listener

SpecPage == InitPage /\ [][NextPage]_vars

\* The tabs alone: initTabs, then clicks on the buttons and calls of switchTab.
InitTabsPage ==
    /\ pc = "start"
    /\ dom = EmptyDom
    /\ inputAt = InputHome
    /\ storage = NoItem
    /\ confetti = 0
    /\ last = NoHandler
    /\ boot = <<>>
    /\ tabs \in TabsAtStart
    /\ calc = PlainCalc

\* A click on tab button i, which has the listener of lines 170 or 174.
ClickTab(i) ==
    /\ i \in tabs.listening
    /\ tabs' = switchTab(tabs, Whole(i))
    /\ UNCHANGED <<boardVars, boot, calc>>

\* A call switchTab(x) made by other code of the page after initTabs.
CallSwitchTab(x) ==
    /\ boot # <<>>
    /\ tabs' = switchTab(tabs, x)
    /\ UNCHANGED <<boardVars, boot, calc>>

NextTabs ==
    \/ ListenerTabs
    \/ \E i \in TabIndexes : ClickTab(i)
    \/ \E x \in IndexValues : CallSwitchTab(x)

SpecTabs == InitTabsPage /\ [][NextTabs]_vars

(* Queries used to state the properties *)

\* listByColumn(c): the tasks of column c as <<id, text>> pairs, in order.
Listing(d, c) == [k \in 1..Len(d[c]) |-> <<d[c][k].id, d[c][k].text>>]

IdsIn(d, c) == {d[c][k].id : k \in 1..Len(d[c])}

BoardIds(d) == UNION {IdsIn(d, c) : c \in ColumnIds}

\* How many tasks of column c have this id and text.
OnBoardCount(d, id, text, c) ==
    Cardinality({k \in 1..Len(d[c]) : d[c][k].id = id /\ d[c][k].text = text})

\* How many records of an array are the object {id, text, status: c}.
StoredCount(items, id, text, c) ==
    Cardinality({k \in 1..Len(items) : items[k] = Obj(Str(id), Str(text), Str(c))})

BoardTexts(d) == UNION {{d[c][k].text : k \in 1..Len(d[c])} : c \in ColumnIds}

----------------------------------------------------------------------------
(* C1 *)

\* C1: after a drop of a task that is on the board onto column c, the listing
\* of c contains the task's id and the listing of no other column contains it.
C1_DroppedTaskOnlyInTarget ==
    (last.op = "drop" /\ last.res \in {"Moved", "NoOp"})
        => /\ last.id \in IdsIn(dom, last.col)
           /\ \A c \in ColumnIds \ {last.col} : last.id \notin IdsIn(dom, c)

----------------------------------------------------------------------------
(* C2 *)

\* C2: after a successful add, move to a different column, or delete, the slot
\* holds an array with exactly one {id, text, column} record per task on the
\* board and nothing else.
C2_SlotHoldsBoard ==
    last.res \in {"Added", "Moved", "Deleted"}
        => /\ storage.kind = "array"
           /\ Len(storage.items) = TaskCount(dom)
           /\ \A c \in ColumnIds : \A k \in 1..Len(dom[c]) :
                 StoredCount(storage.items, dom[c][k].id, dom[c][k].text, c)
                     = OnBoardCount(dom, dom[c][k].id, dom[c][k].text, c)

\* A save has overwritten a slot after a task left the 'todo' column.
C2_Witness ==
    /\ last.res = "Moved"
    /\ TaskCount(dom) = 2
    /\ dom["done"] # <<>>
    /\ dom["todo"] # <<>>
    /\ storage.kind = "array"

----------------------------------------------------------------------------
(* C3 *)

\* C3: loading the snapshot of the current board into an empty board gives the
\* same board: every column lists the same tasks, with the same id and text.
C3_RoundTrip ==
    pc = "ready"
        => LET snapshot == saveTasksToLocalStorage(NoItem, dom, TRUE)
               loaded   == LoadResult(EmptyDom, snapshot)
           IN  /\ loaded.res = "Loaded"
               /\ \A c \in ColumnIds : Listing(loaded.dom, c) = Listing(dom, c)

\* A board built by add and move, with tasks in two columns, that was saved.
C3_Witness ==
    /\ pc = "ready"
    /\ last.res = "Moved"
    /\ dom["inprogress"] # <<>>
    /\ dom["todo"] # <<>>
    /\ BoardTexts(dom) = {<<"x">>, <<"y">>}
    /\ storage = saveTasksToLocalStorage(NoItem, dom, TRUE)

----------------------------------------------------------------------------
(* C4 *)

\* A record load is meant to accept: three strings and a known column.
KnownColumnRecord(task) ==
    /\ task.kind = "object"
    /\ task.id.type = "string"
    /\ task.text.type = "string"
    /\ task.status.type = "string"
    /\ task.status.val \in ColumnIds

\* C4: load skips a record whose column is not todo, inprogress or done: the
\* board holds as many tasks as the sequence has records with a known column.
C4_UnknownColumnSkipped ==
    (last.op = "load" /\ last.res = "Loaded")
        => TaskCount(dom)
             = Cardinality({k \in 1..Len(storage.items) : KnownColumnRecord(storage.items[k])})

----------------------------------------------------------------------------
(* C5 *)

\* The task element a drop with this payload acts on is already in column c.
InColumn(d, inp, taskId, c) ==
    LET e == getElementById(d, inp, taskId)
    IN  e.kind = "task" /\ e.col = c

\* C5: a drop of a task onto the column it is already in leaves the slot as
\* it was.
C5_SameColumnDropKeepsSlot ==
    [][\A taskId \in PayloadIds, c \in ColumnIds :
          (drop(taskId, c, TRUE) /\ InColumn(dom, inputAt, taskId, c))
              => storage' = storage]_vars

----------------------------------------------------------------------------
(* C6 *)

\* C6: a drop of a task onto the column it is already in leaves every column's
\* listing as it was: the same tasks, ids and texts, in the same order.
C6_SameColumnDropKeepsBoard ==
    [][\A taskId \in PayloadIds, c \in ColumnIds :
          (drop(taskId, c, TRUE) /\ InColumn(dom, inputAt, taskId, c))
              => \A k \in ColumnIds : Listing(dom', k) = Listing(dom, k)]_vars

\* A task that is not the last of its column was dropped on that column.
C6_Witness ==
    /\ last.op = "drop"
    /\ last.res = "NoOp"
    /\ Len(dom[last.col]) = 2
    /\ dom[last.col][1].id = last.id
    /\ dom[last.col][2].id # last.id

----------------------------------------------------------------------------
(* C7 *)

\* C7: the last handler called triggerConfetti once if it was a drop that took
\* a task from another column into 'done', and not at all otherwise (add,
\* delete, load, a drop into todo or inprogress, a drop of a done task on done).
C7_ConfettiIffNewlyDone ==
    confetti = IF last.op = "drop" /\ last.res = "Moved" /\ last.col = "done" THEN 1 ELSE 0

\* A task moved into 'done' and the signal fired.
C7_Witness ==
    /\ last.op = "drop"
    /\ last.res = "Moved"
    /\ last.col = "done"
    /\ confetti = 1

\* A task already in 'done' was dropped on 'done' and the signal did not fire.
C7_WitnessNoOp ==
    /\ last.op = "drop"
    /\ last.res = "NoOp"
    /\ last.col = "done"
    /\ confetti = 0

----------------------------------------------------------------------------
(* C8 *)

\* C8: no task id appears twice on the board.
C8_NoDuplicateIds ==
    LET all == TaskElements(dom)
    IN  \A j, k \in 1..Len(all) : j # k => all[j].el.id # all[k].el.id

\* The part of C8 about add: an add never leaves two tasks with the id it
\* allocated on the board.
C8_AddAllocatesFreshId ==
    (last.op = "add" /\ last.res = "Added")
        => Cardinality({k \in 1..TaskCount(dom) : TaskElements(dom)[k].el.id = last.id}) = 1

----------------------------------------------------------------------------
(* C9 *)

\* C9: after a delete of a task that was on the board no column lists a task
\* with that id (so that a second delete finds nothing).
C9_DeletedIdGone ==
    (last.op = "delete" /\ last.res = "Deleted") => last.id \notin BoardIds(dom)

\* The rest of C9: a delete that finds nothing changes neither the board nor
\* the slot.
C9_SecondDeleteChangesNothing ==
    [][\A taskId \in PayloadIds :
          (deleteTask(taskId, TRUE) /\ getElementById(dom, inputAt, taskId).kind = "none")
              => dom' = dom /\ storage' = storage]_vars

----------------------------------------------------------------------------
(* C10 *)

\* C10: a drop or a delete whose id names no task on the board changes neither
\* the board nor the slot.
C10_UnknownIdChangesNothing ==
    [][\A taskId \in AnyPayloadIds :
          (/\ taskId \notin BoardIds(dom)
           /\ \/ deleteTask(taskId, TRUE)
              \/ \E c \in ColumnIds : drop(taskId, c, TRUE))
              => dom' = dom /\ storage' = storage]_vars

----------------------------------------------------------------------------
(* C11 *)

\* C11: whenever load treats the stored content as corrupt and clears the
\* slot, the board is empty when load finishes.
C11_CorruptLoadLeavesBoardEmpty ==
    (last.op = "load" /\ last.res \in {"Corrupt", "NotArray"}) => TaskCount(dom) = 0

----------------------------------------------------------------------------
(* C12 *)

\* A record the board is meant to accept: non-empty id and text, known column.
WellFormedRecord(task) ==
    /\ KnownColumnRecord(task)
    /\ task.id.val # ""
    /\ task.text.val # <<>>

\* C12: every well-formed record of a stored array is on the board after
\* load, in the column it names, whatever the other elements of the array are.
C12_EveryWellFormedRecordLoaded ==
    [][(InitKanban /\ storage.kind = "array")
          => \A k \in 1..Len(storage.items) :
                WellFormedRecord(storage.items[k])
                    => OnBoardCount(dom', storage.items[k].id.val,
                                    storage.items[k].text.val,
                                    storage.items[k].status.val) >= 1]_vars

----------------------------------------------------------------------------
(* C13 *)

\* C13: no task on the board has an empty id or an empty text.
C13_NoEmptyIdOrText ==
    \A c \in ColumnIds : \A k \in 1..Len(dom[c]) :
        dom[c][k].id # "" /\ dom[c][k].text # <<>>

----------------------------------------------------------------------------
(* C14 *)

\* C14: when the slot holds JSON that is not an array, load ends normally
\* with the board empty and the slot removed; and a load that finds the slot
\* absent reports that nothing is stored and changes nothing.
C14_NonArrayClearedOnce ==
    [][/\ (InitKanban /\ storage.kind = "number")
            => /\ dom' = EmptyDom
               /\ storage' = NoItem
               /\ pc' = "ready"
       /\ (InitKanban /\ storage.kind = "absent")
            => /\ last'.res = "Empty"
               /\ dom' = dom
               /\ storage' = storage]_vars

\* The load that found a non-array value has run: empty board, no slot.
C14_Witness ==
    /\ last.op = "load"
    /\ last.res = "NotArray"
    /\ storage = NoItem
    /\ dom = EmptyDom

----------------------------------------------------------------------------
(* C15 *)

\* The raw input is empty or only blanks.
IsBlank(raw) == \A k \in 1..Len(raw) : raw[k] = " "

\* C15: an add whose text is empty after trimming changes neither the board
\* (the tasks, their ids, texts and columns) nor the slot.
C15_BlankAddChangesNothing ==
    [][\A raw \in RawTexts, now \in Times, rnd \in Randoms :
          (IsBlank(raw) /\ addTask(raw, now, rnd, TRUE))
              => dom' = dom /\ storage' = storage]_vars

\* A blank add was rejected on a board that holds a task.
C15_Witness ==
    /\ last.op = "add"
    /\ last.res = "EmptyInput"
    /\ TaskCount(dom) = 1
    /\ storage.kind = "array"

----------------------------------------------------------------------------
(* C16 *)

\* t is raw without its leading and trailing blanks.
IsTrimOf(t, raw) ==
    \E i, j \in 1..Len(raw) :
        /\ i <= j
        /\ raw[i] # " "
        /\ raw[j] # " "
        /\ \A k \in 1..(i - 1) : raw[k] = " "
        /\ \A k \in (j + 1)..Len(raw) : raw[k] = " "
        /\ t = SubSeq(raw, i, j)

\* C16: an add of a text that is not blank puts exactly one new task on the
\* board, at the end of 'todo', with the trimmed text; the other two columns
\* and the tasks already in 'todo' are as before.
C16_AddPutsTrimmedTaskInTodo ==
    [][\A raw \in RawTexts, now \in Times, rnd \in Randoms :
          (~IsBlank(raw) /\ addTask(raw, now, rnd, TRUE))
              => LET n == Len(dom["todo"])
                 IN  /\ TaskCount(dom') = TaskCount(dom) + 1
                     /\ Len(dom'["todo"]) = n + 1
                     /\ SubSeq(dom'["todo"], 1, n) = dom["todo"]
                     /\ IsTrimOf(dom'["todo"][n + 1].text, raw)
                     /\ Listing(dom', "inprogress") = Listing(dom, "inprogress")
                     /\ Listing(dom', "done") = Listing(dom, "done")]_vars

\* An add of " y " has put a second task, with text "y", at the end of 'todo'.
C16_Witness ==
    /\ last.op = "add"
    /\ last.res = "Added"
    /\ Len(dom["todo"]) = 2
    /\ dom["todo"][2].text = <<"y">>
    /\ dom["todo"][2].id = last.id

----------------------------------------------------------------------------
(* C17 *)

\* C17: when the write to the slot throws during an add, a drop on another
\* column or a delete, the board keeps what the handler did before the write:
\* the added task is in 'todo', the moved task is at the end of its new column
\* and gone from the old one, the deleted task is gone. (Each handler leaves its
\* name and arguments in last, which is tested first.)
C17_FailedWriteKeepsMutation ==
    [][/\ \A raw \in RawTexts, now \in Times, rnd \in Randoms :
             (last'.op = "add" /\ ~IsBlank(raw) /\ addTask(raw, now, rnd, FALSE))
                 => /\ TaskCount(dom') = TaskCount(dom) + 1
                    /\ Len(dom'["todo"]) = Len(dom["todo"]) + 1
                    /\ IsTrimOf(dom'["todo"][Len(dom'["todo"])].text, raw)
       /\ \A taskId \in PayloadIds, c \in ColumnIds :
             LET e == getElementById(dom, inputAt, taskId)
             IN  (/\ last'.op = "drop" /\ last'.id = taskId /\ last'.col = c
                  /\ drop(taskId, c, FALSE) /\ e.kind = "task" /\ e.col # c)
                     => /\ Listing(dom', c)
                             = Append(Listing(dom, c), Listing(dom, e.col)[e.idx])
                        /\ Len(dom'[e.col]) = Len(dom[e.col]) - 1
                        /\ TaskCount(dom') = TaskCount(dom)
       /\ \A taskId \in PayloadIds :
             LET e == getElementById(dom, inputAt, taskId)
             IN  (/\ last'.op = "delete" /\ last'.id = taskId
                  /\ deleteTask(taskId, FALSE) /\ e.kind = "task")
                     => /\ TaskCount(dom') = TaskCount(dom) - 1
                        /\ Len(dom'[e.col]) = Len(dom[e.col]) - 1]_vars

\* A delete whose write failed: the task is off the board and still in the slot.
C17_Witness ==
    /\ last.op = "delete"
    /\ last.res = "WriteFailed"
    /\ TaskCount(dom) = 0
    /\ storage.kind = "array"
    /\ Len(storage.items) = 1

\* A drop whose write failed: the task is in its new column, the slot has the old one.
C17_WitnessMove ==
    /\ last.op = "drop"
    /\ last.res = "WriteFailed"
    /\ last.id \in IdsIn(dom, "done")
    /\ storage.kind = "array"
    /\ Len(storage.items) = 1
    /\ storage.items[1].status.val = "todo"

----------------------------------------------------------------------------
(* C18 *)

\* C18: a load of a stored array whose elements are all record-like (none is
\* null) leaves the slot exactly as it was, also when it skipped records.
C18_LoadKeepsSlot ==
    [][(/\ InitKanban
        /\ storage.kind = "array"
        /\ \A k \in 1..Len(storage.items) : storage.items[k].kind # "null")
          => storage' = storage]_vars

\* A load has skipped one of two stored elements and the slot still holds both.
C18_Witness ==
    /\ last.op = "load"
    /\ last.res = "Loaded"
    /\ storage.kind = "array"
    /\ Len(storage.items) = 2
    /\ TaskCount(dom) = 1

----------------------------------------------------------------------------
(* C19 *)

\* C19: every task on the board is a child of one of the three containers and
\* the column recorded for it is one of the three; and once a handler has
\* saved, every record in the slot names one of the three columns.
C19_ColumnsAreTheThree ==
    /\ DOMAIN dom = ColumnIds
    /\ \A k \in 1..TaskCount(dom) :
          /\ TaskElements(dom)[k].col \in ColumnIds
          /\ TaskElements(dom)[k].el.lastColumn \in ColumnIds
    /\ last.res \in {"Added", "Moved", "NoOp", "Deleted", "Foreign"}
          => /\ storage.kind = "array"
             /\ \A k \in 1..Len(storage.items) :
                   /\ storage.items[k].status.type = "string"
                   /\ storage.items[k].status.val \in ColumnIds

\* Right after a load of a record with an unknown column: the task is in 'todo'.
C19_Witness ==
    /\ last.op = "load"
    /\ storage.kind = "array"
    /\ Len(storage.items) = 1
    /\ storage.items[1].status.val = "archived"
    /\ Len(dom["todo"]) = 1
    /\ dom["todo"][1].lastColumn = "todo"

----------------------------------------------------------------------------
(* C20 *)

\* Every column lists the same tasks in both boards, but for column c.
SameListingsBut(d1, d2, cs) ==
    \A k \in ColumnIds \ cs : Listing(d1, k) = Listing(d2, k)

\* C20: the three commands change the board only as follows. An add leaves
\* every listed task as it is and may append one task to 'todo'. A drop takes
\* one task out of its column and appends it, with the same id and text, to
\* the target column, and leaves every other task as it is. A delete takes
\* the one task it found out of its column and leaves every other task as it
\* is. Hence only add makes the board grow, only a drop changes a task's
\* column and only delete makes the board shrink. (Each handler leaves its
\* name and arguments in last, which is tested first.)
C20_LifecycleFrame ==
    [][/\ \A raw \in RawTexts, now \in Times, rnd \in Randoms :
             (last'.op = "add" /\ addTask(raw, now, rnd, TRUE))
                 => LET before == Listing(dom, "todo")
                        after  == Listing(dom', "todo")
                    IN  /\ SameListingsBut(dom', dom, {"todo"})
                        /\ \/ after = before
                           \/ /\ Len(after) = Len(before) + 1
                              /\ SubSeq(after, 1, Len(before)) = before
       /\ \A taskId \in PayloadIds, c \in ColumnIds :
             (/\ last'.op = "drop" /\ last'.id = taskId /\ last'.col = c
              /\ drop(taskId, c, TRUE))
                 => LET e == getElementById(dom, inputAt, taskId)
                    IN  /\ TaskCount(dom') = TaskCount(dom)
                        /\ IF e.kind = "task" /\ e.col # c
                           THEN /\ Listing(dom', c)
                                     = Append(Listing(dom, c), Listing(dom, e.col)[e.idx])
                                /\ Listing(dom', e.col) = RemoveAt(Listing(dom, e.col), e.idx)
                                /\ SameListingsBut(dom', dom, {c, e.col})
                           ELSE SameListingsBut(dom', dom, {})
       /\ \A taskId \in PayloadIds :
             (last'.op = "delete" /\ last'.id = taskId /\ deleteTask(taskId, TRUE))
                 => LET e == getElementById(dom, inputAt, taskId)
                    IN  IF e.kind = "task"
                        THEN /\ Listing(dom', e.col) = RemoveAt(Listing(dom, e.col), e.idx)
                             /\ SameListingsBut(dom', dom, {e.col})
                             /\ TaskCount(dom') = TaskCount(dom) - 1
                        ELSE SameListingsBut(dom', dom, {})]_vars

\* A delete has removed one of two tasks and the other is still in 'done'.
C20_Witness ==
    /\ last.op = "delete"
    /\ last.res = "Deleted"
    /\ TaskCount(dom) = 1
    /\ Len(dom["done"]) = 1

----------------------------------------------------------------------------
(* C21 *)

\* A field's value as the documentation takes it: 0 when the field is empty
\* or holds no number.
AsNumber(v) == IF v.kind = "num" THEN v.val ELSE 0

\* C21: once the calculator is initialized with all its elements, and no
\* field holds an infinite value, the result span shows
\* ((D * (SP - Cp + B + 74) - 7400) / 1.18) / 100 for the four field values.
C21_ShowsDocumentedEquation ==
    (/\ calc.listening
     /\ calc.found
     /\ \A f \in FieldIds : calc.fields[f].kind # "inf")
        => calc.result =
              Number(Shown(Term3(AsNumber(calc.fields["varD"]), AsNumber(calc.fields["varSP"]),
                                 AsNumber(calc.fields["varCp"]), AsNumber(calc.fields["varB"])),
                           DocDivisorHundredths))

----------------------------------------------------------------------------
(* C22 *)

\* s is the beginning of t.
IsPrefix(s, t) == Len(s) <= Len(t) /\ SubSeq(t, 1, Len(s)) = s

\* The column a stored element is loaded into, or "" when it is skipped.
ColumnOfRecord(item) ==
    IF /\ item.kind = "object"
       /\ item.id.type = "string"
       /\ item.text.type = "string"
       /\ item.status.type = "string"
    THEN IF item.status.val \in ColumnIds THEN item.status.val ELSE "todo"
    ELSE ""

\* The stored elements that belong to column c, in the order of the array.
RECURSIVE StoredFor(_, _)
StoredFor(items, c) ==
    IF items = <<>> THEN <<>>
    ELSE LET rest == StoredFor(Tail(items), c)
         IN  IF ColumnOfRecord(Head(items)) = c
             THEN <<<<Head(items).id.val, Head(items).text.val>>>> \o rest
             ELSE rest

C22_WitnessLoad ==
    /\ last.op = "load"
    /\ last.res = "Loaded"
    /\ \E c \in ColumnIds :
          /\ Len(dom[c]) = 2
          /\ dom[c][1].id # dom[c][2].id
          /\ Listing(dom, c) = StoredFor(storage.items, c)

----------------------------------------------------------------------------
(* C23 *)

\* C23: in every state each task element's dataset.lastColumn is the id of the
\* column whose container the element is a child of.
C23_LastColumnIsColumn ==
    \A k \in 1..TaskCount(dom) :
        TaskElements(dom)[k].el.lastColumn = TaskElements(dom)[k].col

\* A drop has moved a task to another column, which its lastColumn now names.
C23_Witness ==
    /\ last.op = "drop"
    /\ last.res = "Moved"
    /\ \E k \in 1..Len(dom[last.col]) :
          /\ dom[last.col][k].id = last.id
          /\ dom[last.col][k].lastColumn = last.col

----------------------------------------------------------------------------
(* C24 *)

\* How often name was attempted.
Attempts(name) == Cardinality({k \in 1..Len(boot) : boot[k] = name})

\* C24: the load listener attempts initTabs, initKanban with the load of the
\* stored tasks as its last call, and initCalculator, in this order and each
\* once, whether or not the task-board initialization threw: what has been
\* attempted so far is the beginning of that sequence, the listener can take
\* its next step until initCalculator has been attempted, and the board has
\* been loaded exactly when the load has been attempted.
C24_InitsInOrderOnce ==
    LET clean  == <<"initTabs", "initKanban", "loadTasksFromLocalStorage", "initCalculator">>
        thrown == <<"initTabs", "initKanban", "loadTasksFromLocalStorage", "caught",
                    "initCalculator">>
    IN  /\ IsPrefix(boot, clean) \/ IsPrefix(boot, thrown)
        /\ ListenerAt # "done" => ENABLED Listener
        /\ ListenerAt = "done"
              => \A name \in {clean[k] : k \in 1..Len(clean)} : Attempts(name) = 1
        /\ (last.op = "load") = (Attempts("loadTasksFromLocalStorage") = 1)
        /\ (pc = "ready") = (Attempts("initKanban") = 1)
        /\ calc.listening = (Attempts("initCalculator") = 1)

\* The task-board initialization threw and initCalculator was attempted after it.
C24_Witness ==
    /\ boot = <<"initTabs", "initKanban", "loadTasksFromLocalStorage", "caught",
                "initCalculator">>
    /\ last.res = "Threw"
    /\ calc.listening

----------------------------------------------------------------------------
(* C25 *)

\* Tab i is the one active tab of t: its button has 'active-tab', its content
\* is shown, and the other tab has neither.
OnlyActive(t, i) ==
    /\ t.active[i]
    /\ ~t.hidden[i]
    /\ \A j \in TabIndexes \ {i} : ~t.active[j] /\ t.hidden[j]

\* The indexes 0 and 1.
IsTabIndex(x) == x.kind = "int" /\ x.val \in TabIndexes

\* C25: with all four tab elements found, initTabs leaves the task-board tab
\* (index 0) the one active tab, every later step leaves exactly one tab
\* active, and a switchTab call with an index other than 0 and 1 changes
\* nothing.
C25_ExactlyOneTabActive ==
    [][tabs.found = TabElementIds
          => /\ ListenerTabs => OnlyActive(tabs', 0)
             /\ boot' # <<>> => \E i \in TabIndexes : OnlyActive(tabs', i)
             /\ \A x \in IndexValues :
                   (~IsTabIndex(x) /\ CallSwitchTab(x)) => tabs' = tabs]_vars

====
